---- MODULE Spec2Model ----
(***************************************************************************)
(* A model of the interactive_drawing repository: the interval mapping     *)
(* utilities (common.py, libs/common.py, main.py), the Square clipper      *)
(* (static_grid_drawing.py, libs/square.py) and its branch-per-quadrant    *)
(* variant (main.py), the continuous generator draw                        *)
(* (static_grid_drawing.py), the discrete generator DrawManager and the    *)
(* Controller and main loop that drive it (interactive_grid.py),           *)
(* parse_color (libs/colors.py), and the DataModel and event loop of       *)
(* dynamic_shatter.py.                                                     *)
(*                                                                         *)
(* Numbers.  A float64 is modelled as an exact rational [n, d] in lowest   *)
(* terms, with the IEEE specials the code relies on: n/0 is +inf (n > 0),  *)
(* -inf (n < 0) or NaN (n = 0).  Rounding of + - * / is not modelled; the  *)
(* irrational results of numpy.sqrt are rounded down to a multiple of      *)
(* 1/SqrtScale.  An angle is modelled by a direction vector [dx, dy]:      *)
(* cos and sin are dx and dy over the (rounded) norm of the vector.        *)
(*                                                                         *)
(* Randomness.  numpy.random.uniform(low, high, size) is modelled as a     *)
(* stream: entry i of the array is low + U * (high - low) where U is the   *)
(* fraction ((seed + i) mod UGrid) / UGrid of [0, 1), and the seed is a    *)
(* nondeterministic input of the call.                                     *)
(***************************************************************************)
EXTENDS Integers, Sequences, FiniteSets, TLC

VARIABLES
    sq,      \* the Square object under construction / constructed
    il,      \* the frame of the last Square.inside_lines call
    im,      \* the last call of an interval-mapping function
    dr,      \* the frame of the running static_grid_drawing.draw pass
    dm,      \* the DrawManager object (interactive_grid.py)
    gen,     \* the frame of the last DrawManager._generate call
    color,   \* the last call of libs.colors.parse_color
    app,     \* the frame of interactive_grid.main: its Controller and its loop
    events,  \* the pygame event queue
    inputs,  \* the devices: the mouse position and the slider value
    shatter  \* the frame of dynamic_shatter's VisualizerApp.run and its DataModel

vars == <<sq, il, im, dr, dm, gen, color, app, events, inputs, shatter>>

(***************************************************************************)
(* Bounds of the model.                                                    *)
(***************************************************************************)
UGrid == 4
MaxCount == 2
MaxLen == 2
SqrtScale == 10

None == [tag |-> "none"]

(***************************************************************************)
(* float64 arithmetic (exact rationals with inf and NaN).                  *)
(***************************************************************************)
Abs(i) == IF i < 0 THEN -i ELSE i

Sign(i) == IF i < 0 THEN -1 ELSE IF i > 0 THEN 1 ELSE 0

RECURSIVE GCD(_, _)
GCD(a, b) == IF b = 0 THEN a ELSE GCD(b, a % b)

\* the float n/d: lowest terms, d >= 0; d = 0 gives inf, -inf or NaN
R(n, d) ==
    IF d = 0 THEN [n |-> Sign(n), d |-> 0]
    ELSE LET g == GCD(Abs(n), Abs(d))
         IN  [n |-> (Sign(d) * n) \div g, d |-> Abs(d) \div g]

RInt(i) == [n |-> i, d |-> 1]

NaN == [n |-> 0, d |-> 0]

IsNaN(a) == a.d = 0 /\ a.n = 0

IsFinite(a) == a.d > 0

RAdd(a, b) ==
    IF a.d = 0 /\ b.d = 0
    THEN (IF a.n = b.n THEN a ELSE NaN)
    ELSE R(a.n * b.d + b.n * a.d, a.d * b.d)

RNeg(a) == [n |-> -a.n, d |-> a.d]

RSub(a, b) == RAdd(a, RNeg(b))

RMul(a, b) == R(a.n * b.n, a.d * b.d)

RDivNoInf(a, b) == IF b.n = 0 THEN NaN ELSE R(a.n * b.d, a.d * b.n)

\* a / b: x / 0 is inf, -inf or NaN, as numpy divides
RDiv(a, b) == R(a.n * b.d, a.d * b.n)

RAbs(a) == [n |-> Abs(a.n), d |-> a.d]

\* a <= b; False when either is NaN
RLe(a, b) ==
    /\ ~IsNaN(a)
    /\ ~IsNaN(b)
    /\ IF a.d = 0 /\ b.d = 0 THEN a.n <= b.n ELSE a.n * b.d <= b.n * a.d

\* a < b; False when either is NaN
RLt(a, b) == RLe(a, b) /\ a # b

\* numpy's min of two entries: NaN propagates
RMin(a, b) ==
    IF IsNaN(a) \/ IsNaN(b) THEN NaN ELSE IF RLe(a, b) THEN a ELSE b

\* int(a) of a finite float: truncation towards zero
Trunc(a) == Sign(a.n) * (Abs(a.n) \div a.d)

\* floor of the square root of a natural number
RECURSIVE ISqrt(_)
ISqrt(m) ==
    IF m < 2 THEN m
    ELSE LET s == 2 * ISqrt(m \div 4)
         IN  IF (s + 1) * (s + 1) <= m THEN s + 1 ELSE s

\* numpy.sqrt of a natural number, rounded down to a multiple of 1/SqrtScale
Sqrt(m) == R(ISqrt(m * SqrtScale * SqrtScale), SqrtScale)

(***************************************************************************)
(* Angles as direction vectors.                                            *)
(***************************************************************************)
Dir(dx, dy) ==
    LET g == GCD(Abs(dx), Abs(dy)) IN [dx |-> dx \div g, dy |-> dy \div g]

\* numpy.arctan2(y, x); arctan2(0, 0) is 0, the direction of the +x axis
ArcTan2(y, x) == IF x = 0 /\ y = 0 THEN Dir(1, 0) ELSE Dir(x, y)

Cos(angle) == RDiv(RInt(angle.dx), Sqrt(angle.dx * angle.dx + angle.dy * angle.dy))

Sin(angle) == RDiv(RInt(angle.dy), Sqrt(angle.dx * angle.dx + angle.dy * angle.dy))

\* entry i (from 1) of numpy.random.uniform(low, high, size), stream of seed
UniformAt(low, high, seed, i) ==
    RAdd(low, RMul(R((seed + i) % UGrid, UGrid), RSub(high, low)))

Uniform(low, high, size, seed) ==
    [i \in 1..size |-> UniformAt(low, high, seed, i)]

(***************************************************************************)
(* class Square (static_grid_drawing.py; libs/square.py holds the same     *)
(* class, statement for statement, with resize, translate and set_corners  *)
(* named _resize, _translate and _set_corners).                            *)
(***************************************************************************)
ClassSquare ==
    [x_min |-> RInt(0), x_max |-> RInt(1), y_min |-> RInt(0), y_max |-> RInt(1)]

SetCorners(s) ==
    [x_min |-> s.x_min, x_max |-> s.x_max, y_min |-> s.y_min, y_max |-> s.y_max,
     p1 |-> <<s.x_min, s.y_min>>, p2 |-> <<s.x_max, s.y_min>>,
     p3 |-> <<s.x_max, s.y_max>>, p4 |-> <<s.x_min, s.y_max>>]

Resize(s, scale) ==
    SetCorners([x_min |-> RMul(s.x_min, scale), x_max |-> RMul(s.x_max, scale),
                y_min |-> RMul(s.y_min, scale), y_max |-> RMul(s.y_max, scale)])

Translate(s, translation) ==
    SetCorners([x_min |-> RAdd(s.x_min, translation[1]),
                x_max |-> RAdd(s.x_max, translation[1]),
                y_min |-> RAdd(s.y_min, translation[2]),
                y_max |-> RAdd(s.y_max, translation[2])])

NewSquare(scale, translation) ==
    SetCorners(Translate(Resize(ClassSquare, scale), translation))

BorderXAlwaysMax(s, angle) == s.x_max

BorderXFlipped(s, angle) == IF RLe(RInt(0), Cos(angle)) THEN s.x_min ELSE s.x_max

\* the vertical edge the ray is heading to
BorderX(s, angle) == IF RLe(RInt(0), Cos(angle)) THEN s.x_max ELSE s.x_min

\* the horizontal edge the ray is heading to
BorderY(s, angle) == IF RLe(RInt(0), Sin(angle)) THEN s.y_max ELSE s.y_min

LengthsXOnly(s, starts_x, starts_y, angle) ==
    [i \in DOMAIN starts_x |->
        RAbs(RDiv(RSub(BorderX(s, angle), starts_x[i]), Cos(angle)))]

\* the length of each line until it hits a boundary
Lengths(s, starts_x, starts_y, angle) ==
    [i \in DOMAIN starts_x |->
        RMin(RAbs(RDiv(RSub(BorderX(s, angle), starts_x[i]), Cos(angle))),
             RAbs(RDiv(RSub(BorderY(s, angle), starts_y[i]), Sin(angle))))]

EndsX(starts_x, lengths, angle) ==
    [i \in DOMAIN starts_x |-> RAdd(starts_x[i], RMul(lengths[i], Cos(angle)))]

EndsY(starts_y, lengths, angle) ==
    [i \in DOMAIN starts_y |-> RAdd(starts_y[i], RMul(lengths[i], Sin(angle)))]

NaNRow == <<NaN, NaN>>

\* stack([starts_x, starts_y, ends_x, ends_y, nans, nans], axis=1)
\*     .reshape((count * 3, 2))
StackReshape(count, starts_x, starts_y, ends_x, ends_y) ==
    [r \in 1..(count * 3) |->
        LET i == ((r - 1) \div 3) + 1
            k == (r - 1) % 3
        IN  IF k = 0 THEN <<starts_x[i], starts_y[i]>>
            ELSE IF k = 1 THEN <<ends_x[i], ends_y[i]>>
            ELSE NaNRow]

\* the frame of Square.inside_lines(count, angle): its locals and its result
InsideLinesFrame(s, count, angle, seed_x, seed_y) ==
    LET starts_x == Uniform(s.x_min, s.x_max, count, seed_x)
        starts_y == Uniform(s.y_min, s.y_max, count, seed_y)
        lengths == Lengths(s, starts_x, starts_y, angle)
        ends_x == EndsX(starts_x, lengths, angle)
        ends_y == EndsY(starts_y, lengths, angle)
    IN  [tag |-> "inside_lines", square |-> s, count |-> count, angle |-> angle,
         starts_x |-> starts_x, starts_y |-> starts_y,
         border_x |-> BorderX(s, angle), border_y |-> BorderY(s, angle),
         lengths |-> lengths, ends_x |-> ends_x, ends_y |-> ends_y,
         points |-> StackReshape(count, starts_x, starts_y, ends_x, ends_y)]

InsideLines(s, count, angle, seed_x, seed_y) ==
    InsideLinesFrame(s, count, angle, seed_x, seed_y).points

(***************************************************************************)
(* The inputs of the Square specification.                                 *)
(***************************************************************************)
Scales == {R(1, 2), RInt(1)}

Translations == {<<RInt(0), RInt(0)>>, <<R(-3, 2), RInt(2)>>}

\* angles of [-pi, pi]: the axis directions, a 3-4-5 direction of every
\* quadrant (exact cos and sin), and a direction of irrational norm of every
\* quadrant
Angles ==
    {Dir(x, y) : <<x, y>> \in
        {<<1, 0>>, <<0, 1>>, <<-1, 0>>, <<0, -1>>,
         <<3, 4>>, <<-4, 3>>, <<-3, -4>>, <<4, -3>>,
         <<1, 1>>, <<-1, 2>>, <<-2, -1>>, <<1, -3>>}}

Seeds == 0..(UGrid - 1)

Counts == 0..MaxCount

InitIdle ==
    /\ sq = None
    /\ il = None
    /\ im = None
    /\ dr = None
    /\ dm = None
    /\ gen = None
    /\ color = None
    /\ app = None
    /\ events = <<>>
    /\ inputs = None
    /\ shatter = None

\* Square(scale, translation)
SquareNew ==
    \E scale \in Scales, translation \in Translations :
        /\ il = None
        /\ sq' = NewSquare(scale, translation)
        /\ il' = None
        /\ UNCHANGED <<im, dr, dm, gen, color, app, events, inputs, shatter>>

\* square.inside_lines(count, angle)
SquareInsideLines ==
    \E count \in Counts, angle \in Angles, seed_x \in Seeds, seed_y \in Seeds :
        /\ sq # None
        /\ il = None
        /\ il' = InsideLinesFrame(sq, count, angle, seed_x, seed_y)
        /\ UNCHANGED <<sq, im, dr, dm, gen, color, app, events, inputs, shatter>>

\* the caller is done with the returned points
SquareReturn ==
    /\ il # None
    /\ il' = None
    /\ UNCHANGED <<sq, im, dr, dm, gen, color, app, events, inputs, shatter>>

(***************************************************************************)
(* class Square of main.py: the same constructor, resize, translate and    *)
(* set_corners; its inside_lines_1 clips with distance_to_hit_boundary, an *)
(* if/elif chain over the quadrant of the angle.                           *)
(*                                                                         *)
(* The chain compares the angle, a float64 of [-pi, pi], with the floats   *)
(* numpy.pi / 2 and numpy.pi.  These lie just below pi / 2 and pi, so the  *)
(* axis angles a program can pass are not the exact axis directions:       *)
(* numpy.cos(numpy.pi / 2) is 6.1e-17 > 0 and numpy.sin(numpy.pi) is       *)
(* 1.2e-16 > 0.  They are modelled by the directions (1, AxisSlope),       *)
(* (1, -AxisSlope), (-AxisSlope, 1) and (-AxisSlope, -1), whose cos or sin *)
(* is 1 / AxisSlope.  Only the angle 0.0 is an exact axis direction.       *)
(***************************************************************************)
AxisSlope == 1000

\* 0 <= angle <= numpy.pi / 2, for an angle with cos # 0 and sin # 0
InZeroToHalfPi(angle) == angle.dx > 0 /\ angle.dy > 0

\* -numpy.pi / 2 <= angle < 0, for an angle with cos # 0 and sin # 0
InMinusHalfPiToZero(angle) == angle.dx > 0 /\ angle.dy < 0

\* numpy.pi / 2 < angle <= numpy.pi, for an angle with cos # 0 and sin # 0
InHalfPiToPi(angle) == angle.dx < 0 /\ angle.dy > 0

\* -numpy.pi <= angle < -numpy.pi / 2, for an angle with cos # 0 and sin # 0
InMinusPiToMinusHalfPi(angle) == angle.dx < 0 /\ angle.dy < 0

\* numpy.stack([abs((edge_x - X) / cos), abs((edge_y - Y) / sin)],
\*             axis=1).min(axis=1)
MinToEdges(edge_x, edge_y, X, Y, angle) ==
    [i \in DOMAIN X |->
        RMin(RAbs(RDiv(RSub(edge_x, X[i]), Cos(angle))),
             RAbs(RDiv(RSub(edge_y, Y[i]), Sin(angle))))]

DistanceToHitBoundaryFirstQuadrant(s, X, Y, angle) ==
    MinToEdges(s.x_max, s.y_max, X, Y, angle)

\* Square.distance_to_hit_boundary(X, Y, angle)
DistanceToHitBoundary(s, X, Y, angle) ==
    IF Cos(angle) = RInt(0)
    THEN [i \in DOMAIN X |-> RSub(s.y_max, Y[i])]
    ELSE IF Sin(angle) = RInt(0)
    THEN [i \in DOMAIN X |-> RSub(s.x_max, X[i])]
    ELSE IF InZeroToHalfPi(angle)
    THEN MinToEdges(s.x_max, s.y_max, X, Y, angle)
    ELSE IF InMinusHalfPiToZero(angle)
    THEN MinToEdges(s.x_max, s.y_min, X, Y, angle)
    ELSE IF InHalfPiToPi(angle)
    THEN MinToEdges(s.x_min, s.y_max, X, Y, angle)
    ELSE MinToEdges(s.x_min, s.y_min, X, Y, angle)

\* the frame of Square.inside_lines_1(count, angle): its locals and its result
InsideLines1Frame(s, count, angle, seed_x, seed_y) ==
    LET starts_x == Uniform(s.x_min, s.x_max, count, seed_x)
        starts_y == Uniform(s.y_min, s.y_max, count, seed_y)
        lengths == DistanceToHitBoundary(s, starts_x, starts_y, angle)
    IN  [tag |-> "inside_lines_1", square |-> s, count |-> count, angle |-> angle,
         starts_x |-> starts_x, starts_y |-> starts_y, lengths |-> lengths,
         ends_x |-> EndsX(starts_x, lengths, angle),
         ends_y |-> EndsY(starts_y, lengths, angle)]

\* the float64 angles of [-pi, pi]: 0.0, numpy.pi / 2, -numpy.pi / 2,
\* numpy.pi, -numpy.pi, and the angles of Angles inside a quadrant
FloatAngles ==
    {Dir(1, 0), Dir(1, AxisSlope), Dir(1, -AxisSlope), Dir(-AxisSlope, 1),
     Dir(-AxisSlope, -1)}
    \cup {angle \in Angles : angle.dx # 0 /\ angle.dy # 0}

\* square.inside_lines_1(count, angle), for a Square of main.py
SquareInsideLines1 ==
    \E count \in Counts, angle \in FloatAngles, seed_x \in Seeds, seed_y \in Seeds :
        /\ sq # None
        /\ il = None
        /\ il' = InsideLines1Frame(sq, count, angle, seed_x, seed_y)
        /\ UNCHANGED <<sq, im, dr, dm, gen, color, app, events, inputs, shatter>>

NextSquare == SquareNew \/ SquareInsideLines \/ SquareInsideLines1 \/ SquareReturn

SpecSquare == InitIdle /\ [][NextSquare]_vars

(***************************************************************************)
(* Interval mapping: common.py, libs/common.py, main.py.                   *)
(* A value is an array of floats (a sequence; a scalar has one entry); an  *)
(* interval is a pair <<lo, hi>>.  A call either returns a value or raises *)
(* an exception, recorded with its class and message.                      *)
(***************************************************************************)
Return(v) == [tag |-> "return", value |-> v]

Raise(exc, msg) == [tag |-> "raise", exc |-> exc, msg |-> msg]

ToUnitByUpper(value, interval) ==
    [i \in DOMAIN value |-> RDiv(RSub(value[i], interval[1]), interval[2])]

\* (value - interval[0]) / (interval[1] - interval[0]), element-wise
ToUnit(value, interval) ==
    [i \in DOMAIN value |->
        RDiv(RSub(value[i], interval[1]), RSub(interval[2], interval[1]))]

\* value * (interval[1] - interval[0]) + interval[0], element-wise
FromUnit(value, interval) ==
    [i \in DOMAIN value |->
        RAdd(RMul(value[i], RSub(interval[2], interval[1])), interval[1])]

\* common.normalize
CommonNormalize(value, interval) ==
    IF ~RLe(interval[1], interval[2])
    THEN Raise("AssertionError", "wrong interval")
    ELSE IF ~(\A i \in DOMAIN value : RLe(interval[1], value[i]))
    THEN Raise("AssertionError", "values must be >= interval[0]")
    ELSE IF ~(\A i \in DOMAIN value : RLe(value[i], interval[2]))
    THEN Raise("AssertionError", "values must be <= interval[1]")
    ELSE Return(ToUnit(value, interval))

\* common.map_to_interval
CommonMapToInterval(value, interval) ==
    IF ~RLe(interval[1], interval[2])
    THEN Raise("AssertionError", "wrong interval")
    ELSE IF ~(\A i \in DOMAIN value : RLe(RInt(0), value[i]))
    THEN Raise("AssertionError", "values must be >= 0")
    ELSE IF ~(\A i \in DOMAIN value : RLe(value[i], RInt(1)))
    THEN Raise("AssertionError", "values must be <= 1")
    ELSE Return(FromUnit(value, interval))

NormalizeToUnitIntervalStrict(values, interval) ==
    IF RLe(interval[2], interval[1])
    THEN Raise("ValueError", "wrong interval")
    ELSE IF (\E i \in DOMAIN values : RLe(values[i], interval[1]))
            \/ (\E i \in DOMAIN values : RLt(interval[2], values[i]))
    THEN Raise("ValueError", "values out of interval")
    ELSE Return(ToUnit(values, interval))

\* libs.common.normalize_to_unit_interval
NormalizeToUnitInterval(values, interval) ==
    IF RLe(interval[2], interval[1])
    THEN Raise("ValueError", "wrong interval")
    ELSE IF (\E i \in DOMAIN values : RLt(values[i], interval[1]))
            \/ (\E i \in DOMAIN values : RLt(interval[2], values[i]))
    THEN Raise("ValueError", "values out of interval")
    ELSE Return(ToUnit(values, interval))

ScaleToCustomIntervalStrict(values, interval) ==
    IF RLe(interval[2], interval[1])
    THEN Raise("ValueError", "wrong interval")
    ELSE IF (\E i \in DOMAIN values : RLt(values[i], RInt(0)))
            \/ (\E i \in DOMAIN values : RLe(RInt(1), values[i]))
    THEN Raise("ValueError", "values out of [0, 1]")
    ELSE Return(FromUnit(values, interval))

\* libs.common.scale_to_custom_interval
ScaleToCustomInterval(values, interval) ==
    IF RLe(interval[2], interval[1])
    THEN Raise("ValueError", "wrong interval")
    ELSE IF (\E i \in DOMAIN values : RLt(values[i], RInt(0)))
            \/ (\E i \in DOMAIN values : RLt(RInt(1), values[i]))
    THEN Raise("ValueError", "values out of [0, 1]")
    ELSE Return(FromUnit(values, interval))

\* main.normalize (a scalar value)
MainNormalize(value, interval) ==
    IF ~(RLe(interval[1], value[1]) /\ RLe(value[1], interval[2]))
    THEN Raise("AssertionError", "value must be in interval")
    ELSE Return(ToUnit(value, interval))

\* main.map_to_interval (a scalar value)
MainMapToInterval(value, interval) ==
    IF ~RLe(interval[1], interval[2])
    THEN Raise("AssertionError", "wrong interval")
    ELSE IF ~(RLe(RInt(0), value[1]) /\ RLe(value[1], RInt(1)))
    THEN Raise("AssertionError", "value must be in [0, 1]")
    ELSE Return(FromUnit(value, interval))

Functions ==
    {"common.normalize", "common.map_to_interval",
     "libs.common.normalize_to_unit_interval",
     "libs.common.scale_to_custom_interval",
     "main.normalize", "main.map_to_interval"}

Normalizers ==
    {"common.normalize", "libs.common.normalize_to_unit_interval", "main.normalize"}

Mappers ==
    {"common.map_to_interval", "libs.common.scale_to_custom_interval",
     "main.map_to_interval"}

\* the function that undoes normalizer fn in the same file
MapperOf(fn) ==
    IF fn = "common.normalize" THEN "common.map_to_interval"
    ELSE IF fn = "libs.common.normalize_to_unit_interval"
    THEN "libs.common.scale_to_custom_interval"
    ELSE "main.map_to_interval"

Apply(fn, value, interval) ==
    IF fn = "common.normalize" THEN CommonNormalize(value, interval)
    ELSE IF fn = "common.map_to_interval" THEN CommonMapToInterval(value, interval)
    ELSE IF fn = "libs.common.normalize_to_unit_interval"
    THEN NormalizeToUnitInterval(value, interval)
    ELSE IF fn = "libs.common.scale_to_custom_interval"
    THEN ScaleToCustomInterval(value, interval)
    ELSE IF fn = "main.normalize" THEN MainNormalize(value, interval)
    ELSE MainMapToInterval(value, interval)

\* map_to_interval(normalize(v, I), I): an exception of the inner call
\* propagates
RoundTripOutcome(fn, value, interval) ==
    LET inner == Apply(fn, value, interval)
    IN  IF inner.tag = "raise" THEN inner
        ELSE Apply(MapperOf(fn), inner.value, interval)

(***************************************************************************)
(* The inputs of the interval-mapping specification.                       *)
(***************************************************************************)
Floats == {RInt(-1), RInt(0), R(1, 2), RInt(1), RInt(5), RInt(10), RInt(11)}

Arrays == UNION {[1..k -> Floats] : k \in 1..MaxLen}

Intervals ==
    {<<RInt(0), RInt(10)>>, <<RInt(5), RInt(5)>>, <<RInt(10), RInt(0)>>,
     <<RInt(0), RInt(1)>>, <<RInt(-1), RInt(5)>>, <<R(1, 2), RInt(11)>>}

\* the arrays a function takes: main.py's functions take a scalar
ArraysOf(fn) ==
    IF fn \in {"main.normalize", "main.map_to_interval"}
    THEN [1..1 -> Floats]
    ELSE Arrays

\* fn(value, interval)
IntervalCall ==
    \E fn \in Functions, interval \in Intervals :
        \E value \in ArraysOf(fn) :
            /\ im = None
            /\ im' = [tag |-> "call", fn |-> fn, value |-> value,
                      interval |-> interval,
                      outcome |-> Apply(fn, value, interval)]
            /\ UNCHANGED <<sq, il, dr, dm, gen, color, app, events, inputs, shatter>>

\* map_to_interval(normalize(value, interval), interval)
IntervalRoundTrip ==
    \E fn \in Normalizers, interval \in Intervals :
        \E value \in ArraysOf(fn) :
            /\ im = None
            /\ im' = [tag |-> "round_trip", fn |-> fn, value |-> value,
                      interval |-> interval,
                      inner |-> Apply(fn, value, interval),
                      outcome |-> RoundTripOutcome(fn, value, interval)]
            /\ UNCHANGED <<sq, il, dr, dm, gen, color, app, events, inputs, shatter>>

\* the caller is done with the outcome
IntervalReturn ==
    /\ im # None
    /\ im' = None
    /\ UNCHANGED <<sq, il, dr, dm, gen, color, app, events, inputs, shatter>>

NextInterval == IntervalCall \/ IntervalRoundTrip \/ IntervalReturn

SpecInterval == InitIdle /\ [][NextInterval]_vars

(***************************************************************************)
(* draw (static_grid_drawing.py): the continuous generator.                *)
(***************************************************************************)
\* the first definition of get_distance_to_origin_range (examples 1 to 3)
GetDistanceToOriginRange1(x_range, y_range) ==
    <<Sqrt(x_range[1] * x_range[1] + y_range[1] * y_range[1]),
      Sqrt(x_range[2] * x_range[2] + y_range[2] * y_range[2])>>

Max(a, b) == IF a >= b THEN a ELSE b

\* the second definition of get_distance_to_origin_range (example 4)
GetDistanceToOriginRange2(x_range, y_range) ==
    LET mx == Max(Abs(x_range[1]), Abs(x_range[2]))
        my == Max(Abs(y_range[1]), Abs(y_range[2]))
    IN  <<RInt(0), Sqrt(mx * mx + my * my)>>

GetDistanceToOriginRange(getter, x_range, y_range) ==
    IF getter = 1 THEN GetDistanceToOriginRange1(x_range, y_range)
    ELSE GetDistanceToOriginRange2(x_range, y_range)

\* len(range(*r))
RangeLen(r) == IF r[2] > r[1] THEN r[2] - r[1] ELSE 0

\* the k-th cell (from 0) of: for x in range(*x_range): for y in range(*y_range)
CellAt(x_range, y_range, k) ==
    <<x_range[1] + (k \div RangeLen(y_range)), y_range[1] + (k % RangeLen(y_range))>>

\* the scale argument of draw: lambda x, y: 1 (examples 1, 3, 4) or
\* lambda x, y: 1 / (numpy.sqrt(x ** 2 + y ** 2) + 0.2) (example 2)
ScaleOf(scale_fn, x, y) ==
    IF scale_fn = "one" THEN RInt(1)
    ELSE RDiv(RInt(1), RAdd(Sqrt(x * x + y * y), R(1, 5)))

\* the translation argument of draw: lambda x, y: (x, y)
TranslationOf(x, y) == <<RInt(x), RInt(y)>>

\* int(common.map_to_interval(common.normalize(distance, range), count_range)):
\* the count, or the exception of the call that raised
CellCount(distance_to_origin, distance_to_origin_range, count_range) ==
    LET count_normalized ==
            CommonNormalize(<<distance_to_origin>>, distance_to_origin_range)
    IN  IF count_normalized.tag = "raise" THEN count_normalized
        ELSE LET mapped ==
                     CommonMapToInterval(count_normalized.value,
                                         <<RInt(count_range[1]), RInt(count_range[2])>>)
             IN  IF mapped.tag = "raise" THEN mapped
                 ELSE Return(Trunc(mapped.value[1]))

DrawAppendNoSentinel(points, lines) == points \o <<lines>>

\* points += [square.inside_lines(count, angle), numpy.array([[nan, nan]])]
DrawAppend(points, lines) == points \o <<lines, <<NaNRow>>>>

\* numpy.concatenate of a non-empty list of arrays
RECURSIVE Concatenate(_)
Concatenate(arrays) ==
    IF arrays = <<>> THEN <<>> ELSE Head(arrays) \o Concatenate(Tail(arrays))

\* one iteration of the loop of draw, for the next cell of the frame
DrawIteration(f) ==
    LET cell == CellAt(f.x_range, f.y_range, f.k)
        x == cell[1]
        y == cell[2]
        distance_to_origin == Sqrt(x * x + y * y)
        count == CellCount(distance_to_origin, f.distance_to_origin_range,
                           f.count_range)
        angle == ArcTan2(y, x)
        square == NewSquare(ScaleOf(f.scale_fn, x, y), TranslationOf(x, y))
    IN  IF count.tag = "raise"
        THEN [f EXCEPT !.pc = "raised", !.exc = count]
        ELSE [f EXCEPT
                 !.k = f.k + 1,
                 !.points = DrawAppend(f.points,
                                InsideLines(square, count.value, angle,
                                            f.rng[1], f.rng[2])),
                 !.cells = Append(f.cells,
                                [x |-> x, y |-> y, count |-> count.value,
                                 angle |-> angle, square |-> square]),
                 !.rng = <<(f.rng[1] + count.value) % UGrid,
                           (f.rng[2] + count.value) % UGrid>>]

XRanges == {<<0, 0>>, <<0, 2>>, <<-1, 2>>, <<-2, 1>>}

YRanges == {<<0, 0>>, <<0, 2>>, <<-1, 2>>, <<-2, 1>>}

\* count ranges: intervals of non-negative integers
CountRanges == {<<0, MaxCount + 1>>, <<1, MaxCount + 2>>, <<2, 2>>}

\* draw(x_range, y_range, count_range, get_distance_to_origin_range, scale,
\* translation) is entered: lines 117 to 119
DrawStart ==
    \E x_range \in XRanges, y_range \in YRanges, count_range \in CountRanges,
       getter \in {1, 2}, scale_fn \in {"one", "shrink"},
       seed_x \in Seeds, seed_y \in Seeds :
        /\ dr = None
        /\ dm = None
        /\ dr' = [tag |-> "draw", pc |-> "loop",
                  x_range |-> x_range, y_range |-> y_range,
                  count_range |-> count_range, getter |-> getter,
                  scale_fn |-> scale_fn,
                  distance_to_origin_range |->
                      GetDistanceToOriginRange(getter, x_range, y_range),
                  k |-> 0, points |-> <<>>, cells |-> <<>>,
                  rng |-> <<seed_x, seed_y>>, exc |-> None, buffer |-> <<>>]
        /\ UNCHANGED <<sq, il, im, dm, gen, color, app, events, inputs, shatter>>

\* one iteration of the double loop: lines 120 to 135
DrawCell ==
    /\ dr # None
    /\ dr.pc = "loop"
    /\ dr.k < RangeLen(dr.x_range) * RangeLen(dr.y_range)
    /\ dr' = DrawIteration(dr)
    /\ UNCHANGED <<sq, il, im, dm, gen, color, app, events, inputs, shatter>>

\* points = numpy.concatenate(points) and the plot: lines 136 to 148
DrawConcatenate ==
    /\ dr # None
    /\ dr.pc = "loop"
    /\ dr.k = RangeLen(dr.x_range) * RangeLen(dr.y_range)
    /\ dr' = IF dr.points = <<>>
             THEN [dr EXCEPT !.pc = "raised",
                             !.exc = Raise("ValueError",
                                 "need at least one array to concatenate")]
             ELSE [dr EXCEPT !.pc = "done", !.buffer = Concatenate(dr.points)]
    /\ UNCHANGED <<sq, il, im, dm, gen, color, app, events, inputs, shatter>>

\* draw returns, or its exception ends the script
DrawReturn ==
    /\ dr # None
    /\ dr.pc \in {"done", "raised"}
    /\ dr' = None
    /\ UNCHANGED <<sq, il, im, dm, gen, color, app, events, inputs, shatter>>

(***************************************************************************)
(* DrawManager (interactive_grid.py): the discrete generator.              *)
(***************************************************************************)
Min(a, b) == IF a <= b THEN a ELSE b

\* the defaults of --screen-width, --screen-height, --grid-size, --max-lines
DefaultScreenWidth == 1000

DefaultScreenHeight == 1000

DefaultGridSize == 30

DefaultMaxLines == 60

NewDrawManagerCeil(width, height, cell_size, max_lines) ==
    [tag |-> "DrawManager", cell_size |-> cell_size, max_lines |-> max_lines,
     rows |-> (height + cell_size - 1) \div cell_size,
     cols |-> (width + cell_size - 1) \div cell_size]

\* DrawManager.__init__
NewDrawManager(width, height, cell_size, max_lines) ==
    [tag |-> "DrawManager", cell_size |-> cell_size, max_lines |-> max_lines,
     rows |-> height \div cell_size, cols |-> width \div cell_size]

\* DrawManager._anchor_point_xy_to_rc: <<anchor_col, anchor_row>>
AnchorPointXyToRc(d, anchor_point) ==
    <<anchor_point[1] \div d.cell_size, anchor_point[2] \div d.cell_size>>

\* the place (from 1) of entry [row, col, k] in a random array of shape
\* (rows, cols, max_lines)
FlatIndex(d, row, col, k) == (row * d.cols + col) * d.max_lines + k + 1

\* DrawManager._starting_points: entry [row, col, k] of x1 and of y1
StartingPoint(d, row, col, k, seed_x, seed_y) ==
    LET cell_x == col * d.cell_size
        cell_y == row * d.cell_size
        random_x == UniformAt(RInt(0), RInt(d.cell_size), seed_x,
                              FlatIndex(d, row, col, k))
        random_y == UniformAt(RInt(0), RInt(d.cell_size), seed_y,
                              FlatIndex(d, row, col, k))
    IN  <<RAdd(RInt(cell_x), random_x), RAdd(RInt(cell_y), random_y)>>

\* angle + angle_offset for an offset of q quarter turns (the slider runs
\* from 0 to pi / 2)
AddOffset(angle, q) == IF q = 0 THEN angle ELSE Dir(-angle.dy, angle.dx)

RandomLengthLong(d, row, col, k, seed_len) ==
    UniformAt(RInt(5), RInt(d.cell_size), seed_len, FlatIndex(d, row, col, k))

\* entry [row, col, k] of numpy.random.uniform(5, cell_size / 2, size)
RandomLength(d, row, col, k, seed_len) ==
    UniformAt(RInt(5), R(d.cell_size, 2), seed_len, FlatIndex(d, row, col, k))

\* DrawManager._relative_ending_points: entry [row, col, k] of x2 and of y2
RelativeEndingPoint(d, cell_to_anchor_dx, cell_to_anchor_dy, angle_offset, row, col, k, seed_len) ==
    LET cell_to_anchor_angle == ArcTan2(cell_to_anchor_dy, cell_to_anchor_dx)
        angle == AddOffset(cell_to_anchor_angle, angle_offset)
        random_length == RandomLength(d, row, col, k, seed_len)
    IN  <<RMul(random_length, Cos(angle)), RMul(random_length, Sin(angle))>>

NumLinesUnclipped(d, cell_to_anchor_dx, cell_to_anchor_dy) ==
    Trunc(Sqrt(cell_to_anchor_dx * cell_to_anchor_dx
               + cell_to_anchor_dy * cell_to_anchor_dy))

\* numpy.clip(distance.astype(int), None, max_lines) for one cell
NumLines(d, cell_to_anchor_dx, cell_to_anchor_dy) ==
    Min(Trunc(Sqrt(cell_to_anchor_dx * cell_to_anchor_dx
                   + cell_to_anchor_dy * cell_to_anchor_dy)),
        d.max_lines)

\* the lines of one cell: [p1, p2] for line_index in range(n_lines); row and
\* col record the cell the line was generated for
CellLines(d, anchor_point, angle_offset, row, col, seed_x, seed_y, seed_len) ==
    LET anchor == AnchorPointXyToRc(d, anchor_point)
        cell_to_anchor_dx == anchor[1] - col
        cell_to_anchor_dy == anchor[2] - row
        n_lines == NumLines(d, cell_to_anchor_dx, cell_to_anchor_dy)
    IN  [j \in 1..Max(n_lines, 0) |->
            LET p1 == StartingPoint(d, row, col, j - 1, seed_x, seed_y)
                rel == RelativeEndingPoint(d, cell_to_anchor_dx, cell_to_anchor_dy,
                                           angle_offset, row, col, j - 1, seed_len)
            IN  [p1 |-> p1, p2 |-> <<RAdd(rel[1], p1[1]), RAdd(rel[2], p1[2])>>,
                 row |-> row, col |-> col]]

\* the lines of the cells c, c + 1, ... in the order of
\* for row in range(rows): for col in range(cols)
RECURSIVE LinesFrom(_, _, _, _, _, _, _)
LinesFrom(d, anchor_point, angle_offset, c, seed_x, seed_y, seed_len) ==
    IF c >= d.rows * d.cols THEN <<>>
    ELSE CellLines(d, anchor_point, angle_offset, c \div d.cols, c % d.cols,
                   seed_x, seed_y, seed_len)
         \o LinesFrom(d, anchor_point, angle_offset, c + 1, seed_x, seed_y, seed_len)

\* the frame of DrawManager._generate(anchor_point, angle_offset)
GenerateFrame(d, anchor_point, angle_offset, seed_x, seed_y, seed_len) ==
    LET anchor == AnchorPointXyToRc(d, anchor_point)
    IN  [tag |-> "generate", anchor_point |-> anchor_point,
         angle_offset |-> angle_offset,
         anchor_col |-> anchor[1], anchor_row |-> anchor[2],
         angle |->
             [rc \in (0..(d.rows - 1)) \X (0..(d.cols - 1)) |->
                 AddOffset(ArcTan2(anchor[2] - rc[1], anchor[1] - rc[2]),
                           angle_offset)],
         num_lines |->
             [rc \in (0..(d.rows - 1)) \X (0..(d.cols - 1)) |->
                 NumLines(d, anchor[1] - rc[2], anchor[2] - rc[1])],
         lines |-> LinesFrom(d, anchor_point, angle_offset, 0,
                             seed_x, seed_y, seed_len)]

\* screen widths, one of them smaller than a cell
Widths == {10, 60, 100}

Heights == {60, 90}

CellSizes == {20, 30}

MaxLines == 0..MaxCount

\* mouse positions, in pixels
AnchorPoints == {<<0, 0>>, <<45, 70>>, <<99, 59>>}

\* slider values, in quarter turns
AngleOffsets == {0, 1}

\* DrawManager(width, height, cell_size, max_lines), once per run of main
DrawManagerNew ==
    \E width \in Widths, height \in Heights, cell_size \in CellSizes,
       max_lines \in MaxLines :
        /\ dm = None
        /\ dr = None
        /\ dm' = NewDrawManager(width, height, cell_size, max_lines)
        /\ UNCHANGED <<sq, il, im, dr, gen, color, app, events, inputs, shatter>>

\* draw_manager._generate(anchor_point, angle_offset)
GridGenerate ==
    \E anchor_point \in AnchorPoints, angle_offset \in AngleOffsets,
       seed_x \in Seeds, seed_y \in Seeds, seed_len \in Seeds :
        /\ dm # None
        /\ gen = None
        /\ gen' = GenerateFrame(dm, anchor_point, angle_offset,
                                seed_x, seed_y, seed_len)
        /\ UNCHANGED <<sq, il, im, dr, dm, color, app, events, inputs, shatter>>

\* DrawManager.draw is done with the lines
GridReturn ==
    /\ gen # None
    /\ gen' = None
    /\ UNCHANGED <<sq, il, im, dr, dm, color, app, events, inputs, shatter>>

\* the two generators are separate programs: a run is one of them
NextGrid ==
    \/ DrawStart \/ DrawCell \/ DrawConcatenate \/ DrawReturn
    \/ DrawManagerNew \/ GridGenerate \/ GridReturn

SpecGrid == InitIdle /\ [][NextGrid]_vars

(***************************************************************************)
(* Claims about Square.inside_lines (specification SpecSquare).            *)
(***************************************************************************)
\* the end point of segment i of the returned array: row 3i - 1
EndPoint(points, i) == points[3 * (i - 1) + 2]

InRect(p, s) ==
    /\ RLe(s.x_min, p[1]) /\ RLe(p[1], s.x_max)
    /\ RLe(s.y_min, p[2]) /\ RLe(p[2], s.y_max)

\* C1: every segment returned by Square.inside_lines, for a square of positive
\* scale, any angle of [-pi, pi] and any start point drawn in the square, has
\* its end point inside the closed rectangle [x_min, x_max] x [y_min, y_max]
\* of that square.
C1_EndPointInsideSquare ==
    il.tag = "inside_lines" =>
        /\ Len(il.points) = 3 * il.count
        /\ \A i \in 1..il.count : InRect(EndPoint(il.points, i), il.square)

\* C1 witness: a call that returned two segments shooting down-left, the
\* first one ending on an edge of the square away from its start point.
C1_Witness ==
    /\ il.tag = "inside_lines"
    /\ il.count = 2
    /\ il.angle.dx < 0 /\ il.angle.dy < 0
    /\ EndPoint(il.points, 1)[1] = il.square.x_min
    /\ EndPoint(il.points, 1) # il.points[1]

\* C3: the clipping length of a ray is the minimum of the two per-axis
\* distances to the edges the ray is heading to (x_max when cos >= 0 else
\* x_min, y_max when sin >= 0 else y_min): it reaches neither edge too far
\* and reaches one of them exactly; the ray from (0.5, 0.5) at angle 0 in the
\* unit square has length 0.5.
C3_LengthIsMinOfAxisDistances ==
    il.tag = "inside_lines" =>
        \A i \in 1..il.count :
            LET s == il.square
                edge_x == IF il.angle.dx >= 0 THEN s.x_max ELSE s.x_min
                edge_y == IF il.angle.dy >= 0 THEN s.y_max ELSE s.y_min
                dist_x == RAbs(RSub(edge_x, il.starts_x[i]))
                dist_y == RAbs(RSub(edge_y, il.starts_y[i]))
                run_x == RMul(il.lengths[i], RAbs(Cos(il.angle)))
                run_y == RMul(il.lengths[i], RAbs(Sin(il.angle)))
            IN  /\ IsFinite(il.lengths[i])
                /\ RLe(run_x, dist_x)
                /\ RLe(run_y, dist_y)
                /\ run_x = dist_x \/ run_y = dist_y
                /\ ( /\ s.x_min = RInt(0) /\ s.x_max = RInt(1)
                     /\ s.y_min = RInt(0) /\ s.y_max = RInt(1)
                     /\ il.angle = Dir(1, 0)
                     /\ il.starts_x[i] = R(1, 2) /\ il.starts_y[i] = R(1, 2)
                   ) => il.lengths[i] = R(1, 2)

\* C3 witness: the ray from (0.5, 0.5) at angle 0 in the unit square.
C3_Witness ==
    /\ il.tag = "inside_lines"
    /\ il.square = NewSquare(RInt(1), <<RInt(0), RInt(0)>>)
    /\ il.angle = Dir(1, 0)
    /\ il.count = 1
    /\ il.starts_x[1] = R(1, 2) /\ il.starts_y[1] = R(1, 2)
    /\ il.lengths[1] = R(1, 2)

(***************************************************************************)
(* Claims about the interval mapping (specification SpecInterval).         *)
(***************************************************************************)
IsInvalidIntervalError(o) == o.tag = "raise" /\ o.msg = "wrong interval"

IsOutOfRangeError(o) ==
    /\ o.tag = "raise"
    /\ o.msg \in {"values must be >= interval[0]", "values must be <= interval[1]",
                  "values must be >= 0", "values must be <= 1",
                  "values out of interval", "values out of [0, 1]",
                  "value must be in interval", "value must be in [0, 1]"}

Within(v, lo, hi) == RLe(lo, v) /\ RLe(v, hi)

\* C4: for an interval lo < hi, normalize accepts a value exactly when every
\* element lies in [lo, hi], both bounds included, and then returns
\* (v - lo) / (hi - lo) element-wise (lo maps to 0, hi to 1, 5 of (0, 10) to
\* 0.5); with any element outside it raises an out-of-range error.
C4_NormalizeInclusive ==
    (im.tag = "call" /\ im.fn \in Normalizers /\ RLt(im.interval[1], im.interval[2])) =>
        LET lo == im.interval[1]
            hi == im.interval[2]
            out == im.outcome
        IN  IF \A i \in DOMAIN im.value : Within(im.value[i], lo, hi)
            THEN /\ out.tag = "return"
                 /\ DOMAIN out.value = DOMAIN im.value
                 /\ \A i \in DOMAIN im.value :
                        /\ IsFinite(out.value[i])
                        /\ RMul(out.value[i], RSub(hi, lo)) = RSub(im.value[i], lo)
                        /\ im.value[i] = lo => out.value[i] = RInt(0)
                        /\ im.value[i] = hi => out.value[i] = RInt(1)
                        /\ (im.value[i] = RInt(5) /\ lo = RInt(0) /\ hi = RInt(10))
                               => out.value[i] = R(1, 2)
            ELSE IsOutOfRangeError(out)

\* C4 witness: normalize_to_unit_interval([0, 5], (0, 10)) returns [0, 0.5],
\* the lower bound itself being accepted.
C4_Witness ==
    /\ im.tag = "call"
    /\ im.fn = "libs.common.normalize_to_unit_interval"
    /\ im.interval = <<RInt(0), RInt(10)>>
    /\ im.value = <<RInt(0), RInt(5)>>
    /\ im.outcome = Return(<<RInt(0), R(1, 2)>>)

\* C5: for an interval lo < hi, map_to_interval accepts a unit value exactly
\* when every element lies in [0, 1], both bounds included, and then returns
\* u * (hi - lo) + lo, which lies in [lo, hi] (0.5 maps to 5 in (0, 10)); with
\* any element outside [0, 1] it raises an out-of-range error.
C5_MapToIntervalInclusive ==
    (im.tag = "call" /\ im.fn \in Mappers /\ RLt(im.interval[1], im.interval[2])) =>
        LET lo == im.interval[1]
            hi == im.interval[2]
            out == im.outcome
        IN  IF \A i \in DOMAIN im.value : Within(im.value[i], RInt(0), RInt(1))
            THEN /\ out.tag = "return"
                 /\ DOMAIN out.value = DOMAIN im.value
                 /\ \A i \in DOMAIN im.value :
                        /\ Within(out.value[i], lo, hi)
                        /\ RSub(out.value[i], lo) = RMul(im.value[i], RSub(hi, lo))
                        /\ (im.value[i] = R(1, 2) /\ lo = RInt(0) /\ hi = RInt(10))
                               => out.value[i] = RInt(5)
            ELSE IsOutOfRangeError(out)

\* C5 witness: scale_to_custom_interval([0.5, 1], (0, 10)) returns [5, 10],
\* the unit value 1 itself being accepted.
C5_Witness ==
    /\ im.tag = "call"
    /\ im.fn = "libs.common.scale_to_custom_interval"
    /\ im.interval = <<RInt(0), RInt(10)>>
    /\ im.value = <<R(1, 2), RInt(1)>>
    /\ im.outcome = Return(<<RInt(5), RInt(10)>>)

\* C6: every interval-mapping function of every variant raises an
\* invalid-interval error, and returns nothing, when given an interval with
\* lo >= hi (equal bounds such as (5, 5), inverted ones such as (10, 0)),
\* whatever the value is.
C6_InvalidIntervalRejected ==
    (im.tag = "call" /\ RLe(im.interval[2], im.interval[1])) =>
        IsInvalidIntervalError(im.outcome)

\* C7: for lo < hi and every v of [lo, hi], normalize(v, I) succeeds, its
\* result is accepted by map_to_interval, and
\* map_to_interval(normalize(v, I), I) = v.
C7_RoundTrip ==
    ( /\ im.tag = "round_trip"
      /\ RLt(im.interval[1], im.interval[2])
      /\ \A i \in DOMAIN im.value :
             Within(im.value[i], im.interval[1], im.interval[2]) ) =>
        /\ im.inner.tag = "return"
        /\ im.outcome.tag = "return"
        /\ im.outcome.value = im.value

\* C7 witness: a round trip of [5, -1] through the interval (-1, 5), whose
\* normalized form is [1, 0].
C7_Witness ==
    /\ im.tag = "round_trip"
    /\ im.fn = "common.normalize"
    /\ im.interval = <<RInt(-1), RInt(5)>>
    /\ im.value = <<RInt(5), RInt(-1)>>
    /\ im.inner = Return(<<RInt(1), RInt(0)>>)
    /\ im.outcome = Return(im.value)

(***************************************************************************)
(* Claims about the two generators (specification SpecGrid).               *)
(***************************************************************************)
\* the pixel rectangle of grid cell (row, col)
InCell(p, row, col, cell_size) ==
    /\ Within(p[1], RInt(col * cell_size), RInt((col + 1) * cell_size))
    /\ Within(p[2], RInt(row * cell_size), RInt((row + 1) * cell_size))

C8_CountWithinRange ==
    /\ dr.tag = "draw" =>
           \A i \in DOMAIN dr.cells :
               /\ dr.cells[i].count \in Nat
               /\ dr.count_range[1] <= dr.cells[i].count
               /\ dr.cells[i].count <= dr.count_range[2]
               /\ Len(dr.points[2 * i - 1]) = 3 * dr.cells[i].count
    /\ gen.tag = "generate" =>
           \A rc \in DOMAIN gen.num_lines : gen.num_lines[rc] \in 0..dm.max_lines

\* C8 witness: a _generate call with a cell whose distance to the anchor
\* cell exceeds max_lines > 0, and whose count is max_lines.
C8_Witness ==
    /\ gen.tag = "generate"
    /\ dm.max_lines > 0
    /\ \E rc \in DOMAIN gen.num_lines :
           /\ gen.num_lines[rc] = dm.max_lines
           /\ NumLinesUnclipped(dm, gen.anchor_col - rc[2], gen.anchor_row - rc[1])
                  > dm.max_lines

\* C8, continuous side: a draw pass whose farthest cell got c_hi > c_lo lines
\* and another cell got c_lo.
C8_WitnessDraw ==
    /\ dr.tag = "draw"
    /\ dr.count_range[1] < dr.count_range[2]
    /\ \E i, j \in DOMAIN dr.cells :
           /\ dr.cells[i].count = dr.count_range[2]
           /\ dr.cells[j].count = dr.count_range[1]

\* C9: the cell closest to the reference point has the maximum line count,
\* and a cell farther from the reference point never gets more lines than a
\* nearer one.
C9_NearerCellsGetMoreLines ==
    /\ dr.tag = "draw" =>
           \A i, j \in DOMAIN dr.cells :
               LET a == dr.cells[i]
                   b == dr.cells[j]
               IN  (a.x * a.x + a.y * a.y < b.x * b.x + b.y * b.y)
                       => a.count >= b.count
    /\ gen.tag = "generate" =>
           \A a, b \in DOMAIN gen.num_lines :
               LET da == (gen.anchor_col - a[2]) * (gen.anchor_col - a[2])
                         + (gen.anchor_row - a[1]) * (gen.anchor_row - a[1])
                   db == (gen.anchor_col - b[2]) * (gen.anchor_col - b[2])
                         + (gen.anchor_row - b[1]) * (gen.anchor_row - b[1])
               IN  da < db => gen.num_lines[a] >= gen.num_lines[b]

IsNaNRow(row) == IsNaN(row[1]) /\ IsNaN(row[2])

\* the places of the rows of a buffer that are points, in order
PointPlaces(buffer) ==
    SelectSeq([i \in 1..Len(buffer) |-> i], LAMBDA i : ~IsNaNRow(buffer[i]))

\* the number of segments of the first i visited cells
RECURSIVE SegmentsUpTo(_, _)
SegmentsUpTo(cells, i) ==
    IF i = 0 THEN 0 ELSE SegmentsUpTo(cells, i - 1) + cells[i].count

\* the number of sentinel rows between the m-th point row and the next one
SentinelsAfter(buffer, m) ==
    PointPlaces(buffer)[m + 1] - PointPlaces(buffer)[m] - 1

\* C10, as claimed: the buffer built by draw for n cells holds n groups in
\* enumeration order, and the groups of two consecutive cells are separated
\* by exactly one sentinel (NaN, NaN) row.
C10_OneSentinelBetweenGroups ==
    (dr.tag = "draw" /\ dr.pc = "done") =>
        /\ Len(dr.cells) = RangeLen(dr.x_range) * RangeLen(dr.y_range)
        /\ \A i \in 1..(Len(dr.cells) - 1) :
               (dr.cells[i].count >= 1 /\ dr.cells[i + 1].count >= 1) =>
                   SentinelsAfter(dr.buffer, 2 * SegmentsUpTo(dr.cells, i)) = 1

\* C10, amended: the buffer built by draw for n >= 1 cells holds the cells'
\* groups in enumeration order; a segment is three rows (start, end, NaN) and
\* every cell adds one more NaN row after its segments.  So the buffer has
\* 3 * (number of segments) + n rows, two segments of one cell are separated
\* by one sentinel row, the groups of two consecutive cells with segments by
\* exactly two, and a cell of count 0 contributes one sentinel row only.
C10_GroupsAndSentinels ==
    (dr.tag = "draw" /\ dr.pc = "done") =>
        LET n == RangeLen(dr.x_range) * RangeLen(dr.y_range)
            total == SegmentsUpTo(dr.cells, Len(dr.cells))
            places == PointPlaces(dr.buffer)
        IN  /\ n >= 1
            /\ Len(dr.cells) = n
            /\ \A i \in 1..n :
                   <<dr.cells[i].x, dr.cells[i].y>> = CellAt(dr.x_range, dr.y_range, i - 1)
            /\ Len(dr.buffer) = 3 * total + n
            /\ Len(places) = 2 * total
            /\ \A i \in 1..n :
                   LET before == SegmentsUpTo(dr.cells, i - 1)
                       first == 3 * before + (i - 1)
                       count == dr.cells[i].count
                   IN  /\ \A j \in 1..count :
                              /\ places[2 * (before + j) - 1] = first + 3 * j - 2
                              /\ places[2 * (before + j)] = first + 3 * j - 1
                              /\ InRect(dr.buffer[first + 3 * j - 2], dr.cells[i].square)
                              /\ IsNaNRow(dr.buffer[first + 3 * j])
                       /\ IsNaNRow(dr.buffer[first + 3 * count + 1])
            /\ \A i \in 1..(n - 1) :
                   (dr.cells[i].count >= 1 /\ dr.cells[i + 1].count >= 1) =>
                       SentinelsAfter(dr.buffer, 2 * SegmentsUpTo(dr.cells, i)) = 2

\* C10 witness: the finished pass over x_range = (-1, 2), y_range = (-1, 2):
\* 9 groups, the one of cell (0, 0) empty, the first two cells with segments.
C10_Witness ==
    /\ dr.tag = "draw"
    /\ dr.pc = "done"
    /\ dr.x_range = <<-1, 2>>
    /\ dr.y_range = <<-1, 2>>
    /\ Len(dr.cells) = 9
    /\ dr.cells[5].count = 0
    /\ dr.cells[1].count >= 1
    /\ dr.cells[2].count >= 1
    /\ SentinelsAfter(dr.buffer, 2 * dr.cells[1].count) = 2

\* the number of cells of the grid of a draw pass
GridCells(f) == RangeLen(f.x_range) * RangeLen(f.y_range)

\* C11: a grid with zero cells (an empty x or y range such as (0, 0) in draw,
\* a screen smaller than one cell in DrawManager) makes the generation pass
\* finish without an error and yield an empty segment batch.
C11_EmptyGridYieldsEmptyBatch ==
    /\ (dr.tag = "draw" /\ GridCells(dr) = 0 /\ dr.pc # "loop") =>
           /\ dr.pc = "done"
           /\ dr.exc = None
           /\ dr.buffer = <<>>
    /\ (gen.tag = "generate" /\ dm.rows * dm.cols = 0) => gen.lines = <<>>

\* C12: the distance range of a draw pass, from either definition of
\* get_distance_to_origin_range, contains the distance to the origin of every
\* cell of the grid, so no cell makes normalize fail.
C12_DistanceRangeContainsEveryCell ==
    dr.tag = "draw" =>
        /\ \A x \in dr.x_range[1]..(dr.x_range[2] - 1),
              y \in dr.y_range[1]..(dr.y_range[2] - 1) :
               Within(Sqrt(x * x + y * y),
                      dr.distance_to_origin_range[1], dr.distance_to_origin_range[2])
        /\ dr.pc = "raised" =>
               ~(IsOutOfRangeError(dr.exc) \/ IsInvalidIntervalError(dr.exc))

\* the angle pi / 4
QuarterPi == Dir(1, 1)

\* C13: the cell at the reference point (distance 0) is given the angle
\* pi / 4 by the generator, in draw (cell (0, 0)) and in DrawManager._generate
\* (the anchor cell), instead of the value of arctan2(0, 0).
C13_OriginCellAngleIsQuarterPi ==
    /\ dr.tag = "draw" =>
           \A i \in DOMAIN dr.cells :
               (dr.cells[i].x = 0 /\ dr.cells[i].y = 0) => dr.cells[i].angle = QuarterPi
    /\ gen.tag = "generate" =>
           \A rc \in DOMAIN gen.angle :
               (rc[1] = gen.anchor_row /\ rc[2] = gen.anchor_col) =>
                   gen.angle[rc] = QuarterPi

\* C15, as claimed: rows * cols of a DrawManager equals
\* width * height / cell_size^2 for every width, height and cell size it is
\* constructed from, the defaults included, and a draw pass that is over has
\* visited (x_range[1] - x_range[0]) * (y_range[1] - y_range[0]) cells.
C15_CellCountIsAreaOverCellArea ==
    /\ dm.tag = "DrawManager" =>
           \A w \in Widths, h \in Heights :
               dm = NewDrawManager(w, h, dm.cell_size, dm.max_lines) =>
                   dm.rows * dm.cols * dm.cell_size * dm.cell_size = w * h
    /\ LET d == NewDrawManager(DefaultScreenWidth, DefaultScreenHeight,
                               DefaultGridSize, DefaultMaxLines)
       IN  d.rows * d.cols * DefaultGridSize * DefaultGridSize
               = DefaultScreenWidth * DefaultScreenHeight
    /\ (dr.tag = "draw" /\ dr.pc # "loop") =>
           Len(dr.cells) = (dr.x_range[2] - dr.x_range[1])
                               * (dr.y_range[2] - dr.y_range[1])

\* C15, amended: rows * cols of a DrawManager is
\* floor(width / cell_size) * floor(height / cell_size); it is at most
\* width * height / cell_size^2 and equal to it exactly when cell_size divides
\* both width and height (the defaults 1000 x 1000 with cell size 30 give
\* 33 * 33 = 1089 cells), and _generate enumerates exactly rows * cols cells.
\* A draw pass over non-empty or empty ranges (x0 <= x1, y0 <= y1) has visited
\* (x1 - x0) * (y1 - y0) cells when its loop ends; a pass that an exception of
\* normalize or map_to_interval aborts has visited fewer.
C15_CellCountIsProductOfFloors ==
    /\ dm.tag = "DrawManager" =>
           \A w \in Widths, h \in Heights :
               dm = NewDrawManager(w, h, dm.cell_size, dm.max_lines) =>
                   /\ dm.cols = w \div dm.cell_size
                   /\ dm.rows = h \div dm.cell_size
                   /\ dm.rows * dm.cols * dm.cell_size * dm.cell_size <= w * h
                   /\ (dm.rows * dm.cols * dm.cell_size * dm.cell_size = w * h)
                          <=> (w % dm.cell_size = 0 /\ h % dm.cell_size = 0)
    /\ gen.tag = "generate" =>
           /\ Cardinality(DOMAIN gen.num_lines) = dm.rows * dm.cols
           /\ \A j \in DOMAIN gen.lines :
                  <<gen.lines[j].row, gen.lines[j].col>> \in DOMAIN gen.num_lines
    /\ LET d == NewDrawManager(DefaultScreenWidth, DefaultScreenHeight,
                               DefaultGridSize, DefaultMaxLines)
       IN  d.rows * d.cols = 1089
    /\ dr.tag = "draw" =>
           LET n == (dr.x_range[2] - dr.x_range[1]) * (dr.y_range[2] - dr.y_range[1])
           IN  /\ Len(dr.cells) = dr.k
               /\ dr.k <= n
               /\ (dr.pc = "done" \/ (dr.pc = "raised" /\ dr.exc.exc = "ValueError"))
                      => dr.k = n
               /\ (dr.pc = "raised" /\ dr.exc.exc = "AssertionError") => dr.k < n

\* C15 witness: a _generate call on the 3 x 2 grid of a 100 x 60 screen with
\* cells of 30 pixels, which is less than 100 * 60 / 30^2.
C15_Witness ==
    /\ gen.tag = "generate"
    /\ dm = NewDrawManager(100, 60, 30, dm.max_lines)
    /\ dm.rows * dm.cols = 6
    /\ Cardinality(DOMAIN gen.num_lines) = 6
    /\ 6 * dm.cell_size * dm.cell_size < 100 * 60

\* C15, continuous side: a finished draw pass over 3 x 3 cells.
C15_WitnessDraw ==
    /\ dr.tag = "draw"
    /\ dr.pc = "done"
    /\ dr.x_range = <<-1, 2>>
    /\ dr.y_range = <<-2, 1>>
    /\ Len(dr.cells) = 9

(***************************************************************************)
(* More claims about Square.inside_lines (specification SpecSquare).       *)
(***************************************************************************)
\* the mirror image about the vertical axis x = 0: of a square, of the x
\* coordinates of start points, and of an angle (theta becomes pi - theta)
MirrorSquare(s) ==
    SetCorners([x_min |-> RNeg(s.x_max), x_max |-> RNeg(s.x_min),
                y_min |-> s.y_min, y_max |-> s.y_max])

MirrorStarts(starts_x) == [i \in DOMAIN starts_x |-> RNeg(starts_x[i])]

MirrorAngle(angle) == Dir(-angle.dx, angle.dy)

\* the clipping lengths of the mirrored configuration of a frame
MirroredLengths(f) ==
    Lengths(MirrorSquare(f.square), MirrorStarts(f.starts_x), f.starts_y,
            MirrorAngle(f.angle))

C14_WitnessEdge ==
    /\ il.tag = "inside_lines"
    /\ il.count >= 1
    /\ il.angle.dx = 0
    /\ il.starts_x[1] = il.square.x_min
    /\ MirroredLengths(il)[1] # il.lengths[1]

\* C20: an axis-aligned ray needs no division-by-zero guard.  For every start
\* point inside_lines draws: when cos(angle) = 0 the x distance is +infinity
\* and the clipping length is the distance to the y edge the ray heads to,
\* when sin(angle) = 0 the y distance is +infinity and the clipping length is
\* the distance to the x edge; the length is a finite number in both cases.
C20_AxisRaysNeedNoGuard ==
    il.tag = "inside_lines" =>
        \A i \in 1..il.count :
            LET s == il.square
                edge_x == IF il.angle.dx >= 0 THEN s.x_max ELSE s.x_min
                edge_y == IF il.angle.dy >= 0 THEN s.y_max ELSE s.y_min
                x_distance == RAbs(RDiv(RSub(il.border_x, il.starts_x[i]), Cos(il.angle)))
                y_distance == RAbs(RDiv(RSub(il.border_y, il.starts_y[i]), Sin(il.angle)))
            IN  /\ RLe(s.x_min, il.starts_x[i]) /\ RLt(il.starts_x[i], s.x_max)
                /\ RLe(s.y_min, il.starts_y[i]) /\ RLt(il.starts_y[i], s.y_max)
                /\ Cos(il.angle) = RInt(0) =>
                       /\ x_distance = [n |-> 1, d |-> 0]
                       /\ il.lengths[i] = RAbs(RSub(edge_y, il.starts_y[i]))
                       /\ IsFinite(il.lengths[i])
                /\ Sin(il.angle) = RInt(0) =>
                       /\ y_distance = [n |-> 1, d |-> 0]
                       /\ il.lengths[i] = RAbs(RSub(edge_x, il.starts_x[i]))
                       /\ IsFinite(il.lengths[i])

\* C20 witness: a ray straight down from a start point on the x_min edge,
\* clipped at the y_min edge, and in the same call a second ray.
C20_Witness ==
    /\ il.tag = "inside_lines"
    /\ il.angle = Dir(0, -1)
    /\ il.count = 2
    /\ il.starts_x[1] = il.square.x_min
    /\ il.lengths[1] = RSub(il.starts_y[1], il.square.y_min)
    /\ il.lengths[1] # RInt(0)
    /\ EndPoint(il.points, 1) = <<il.starts_x[1], il.square.y_min>>

(***************************************************************************)
(* parse_color (libs/colors.py).  A str is a sequence of characters.       *)
(***************************************************************************)
MaxChars == 7

Chars == {"7", "-", ",", "x"}

Strings == UNION {[1..k -> Chars] : k \in 0..MaxChars}

\* value.split(","): the parts between the commas, at least one part
RECURSIVE Split(_)
Split(value) ==
    IF value = <<>> THEN << <<>> >>
    ELSE LET rest == Split(Tail(value))
         IN  IF Head(value) = ","
             THEN << <<>> >> \o rest
             ELSE << <<Head(value)>> \o Head(rest) >> \o Tail(rest)

IsDigit(c) == c = "7"

\* the value of a string of digits
RECURSIVE DigitsValue(_)
DigitsValue(digits) ==
    IF digits = <<>> THEN 0
    ELSE 10 * DigitsValue(SubSeq(digits, 1, Len(digits) - 1)) + 7

\* int(part): an optional sign and at least one digit, or ValueError
IntOf(part) ==
    LET digits == IF part # <<>> /\ Head(part) = "-" THEN Tail(part) ELSE part
    IN  IF digits = <<>> \/ \E i \in DOMAIN digits : ~IsDigit(digits[i])
        THEN Raise("ValueError", "invalid literal for int() with base 10")
        ELSE Return(IF digits = part THEN DigitsValue(digits)
                    ELSE -DigitsValue(digits))

\* parse_color(value): the tuple of the parts' integers, however many parts
\* there are; the ValueError of int() becomes an ArgumentTypeError
ParseColor(value) ==
    LET parts == Split(value)
    IN  IF \E i \in DOMAIN parts : IntOf(parts[i]).tag = "raise"
        THEN Raise("ArgumentTypeError",
                   "Color must be a comma-separated list of three integers")
        ELSE Return([i \in DOMAIN parts |-> IntOf(parts[i]).value])

\* parse_color(value)
ColorCall ==
    \E value \in Strings :
        /\ color = None
        /\ color' = [tag |-> "parse_color", value |-> value,
                     parts |-> Split(value), outcome |-> ParseColor(value)]
        /\ UNCHANGED <<sq, il, im, dr, dm, gen, app, events, inputs, shatter>>

\* the caller is done with the outcome
ColorReturn ==
    /\ color # None
    /\ color' = None
    /\ UNCHANGED <<sq, il, im, dr, dm, gen, app, events, inputs, shatter>>

NextColor == ColorCall \/ ColorReturn

SpecColor == InitIdle /\ [][NextColor]_vars

(***************************************************************************)
(* Claims about parse_color (specification SpecColor).                     *)
(***************************************************************************)
\* C18: parse_color either returns a tuple of exactly three integers or
\* fails with an argument type error; a string with fewer or more than three
\* comma-separated parts is rejected, never returned as a color.
C18_ThreeIntegersOrError ==
    color.tag = "parse_color" =>
        \/ /\ color.outcome.tag = "return"
           /\ Len(color.outcome.value) = 3
           /\ \A i \in 1..3 : color.outcome.value[i] \in Int
        \/ /\ color.outcome.tag = "raise"
           /\ color.outcome.exc = "ArgumentTypeError"

(***************************************************************************)
(* Controller and main (interactive_grid.py): the interactive loop.        *)
(* The devices (mouse, slider) and the event queue belong to pygame; they  *)
(* change at any moment of a frame.  The screen surface is drawn on by     *)
(* render and shown by pygame.display.flip().                              *)
(***************************************************************************)
MaxEvents == 2

\* pygame events: of these, QUIT and the key-down of ESC ask to quit
Events ==
    {[type |-> "QUIT"], [type |-> "KEYDOWN", key |-> "K_ESCAPE"],
     [type |-> "KEYDOWN", key |-> "K_SPACE"], [type |-> "MOUSEMOTION"]}

\* Controller._keep_running(event)
KeepRunning(event) ==
    IF event.type = "QUIT" THEN FALSE
    ELSE IF event.type = "KEYDOWN" /\ event.key = "K_ESCAPE" THEN FALSE
    ELSE TRUE

\* the value of _running after the loop of handle_events over a batch
RECURSIVE HandleEventsRunning(_, _)
HandleEventsRunning(running, batch) ==
    IF batch = <<>> THEN running
    ELSE HandleEventsRunning(KeepRunning(Head(batch)), Tail(batch))

\* the parsed arguments of main: a 2 x 2 grid with one line per cell at most,
\* a 2 x 1 grid with two, and a negative --max-lines
MainArgs ==
    {[screen_width |-> 60, screen_height |-> 60, grid_size |-> 30, max_lines |-> 1],
     [screen_width |-> 60, screen_height |-> 30, grid_size |-> 30, max_lines |-> 2],
     [screen_width |-> 60, screen_height |-> 60, grid_size |-> 30, max_lines |-> -1]}

\* the states of the devices: pygame.mouse.get_pos() and the slider's value
Devices ==
    {[mouse |-> <<0, 0>>, slider |-> 0], [mouse |-> <<45, 20>>, slider |-> 0],
     [mouse |-> <<45, 20>>, slider |-> 1]}

\* the seeds of numpy's generator at the start of main
MainSeeds == {0, UGrid - 1}

\* what a surface shows: its fill, the slider drawn or not, the lines
BlankImage == [fill |-> "black", ui |-> FALSE, lines |-> <<>>]

\* DrawManager._generate with the state rng of numpy's generator: the three
\* uniform arrays of rows * cols * max_lines entries are drawn one after the
\* other; a negative max_lines makes numpy.tile raise in _starting_points
Generate(d, anchor_point, angle_offset, rng) ==
    IF d.max_lines < 0
    THEN Raise("ValueError", "repeats may not contain negative values")
    ELSE GenerateFrame(d, anchor_point, angle_offset, rng,
                       rng + d.rows * d.cols * d.max_lines,
                       rng + 2 * d.rows * d.cols * d.max_lines)

\* the state of numpy's generator after _generate has returned
RngAfterGenerate(d, rng) == (rng + 3 * d.rows * d.cols * d.max_lines) % UGrid

RenderAnchorLive(a, devices) == devices.mouse

\* anchor_point = self._mouse_pose
RenderAnchor(a, devices) == a.mouse_pose

\* angle_offset = self._slider_value
RenderAngleOffset(a, devices) == a.slider_value

\* pygame.draw.line(surface, line_color, *line, 1) for every line
DrawLines(image, lines) ==
    [image EXCEPT !.lines = image.lines
                      \o [j \in DOMAIN lines |-> <<lines[j].p1, lines[j].p2>>]]

\* main, lines 212 to 249: the arguments, the window, the DrawManager and
\* the Controller
MainStart ==
    \E args \in MainArgs, devices \in Devices, seed \in MainSeeds :
        /\ app = None
        /\ dm = None
        /\ dr = None
        /\ dm' = NewDrawManager(args.screen_width, args.screen_height,
                                args.grid_size, args.max_lines)
        /\ app' = [tag |-> "main", pc |-> "while", args |-> args,
                   running |-> TRUE, mouse_pose |-> <<0, 0>>, slider_value |-> 0,
                   surface |-> BlankImage, display |-> BlankImage,
                   rng |-> seed, batch |-> <<>>, steps |-> <<>>, exc |-> None]
        /\ events' = <<>>
        /\ inputs' = [devices EXCEPT !.slider = 0]
        /\ UNCHANGED <<sq, il, im, dr, gen, color, shatter>>

\* while controller.running: time_delta = clock.tick(100) / 1000.0
MainWhile ==
    /\ app # None
    /\ app.pc = "while"
    /\ app.running
    /\ app' = [app EXCEPT !.pc = "handle_events", !.batch = <<>>, !.steps = <<>>]
    /\ UNCHANGED <<sq, il, im, dr, dm, gen, color, events, inputs, shatter>>

\* controller.handle_events(): every pending event is dequeued
HandleEvents ==
    /\ app # None
    /\ app.pc = "handle_events"
    /\ app' = [app EXCEPT
                  !.pc = "update",
                  !.running = HandleEventsRunning(app.running, events),
                  !.batch = events,
                  !.steps = Append(app.steps, [step |-> "handle_events"])]
    /\ events' = <<>>
    /\ UNCHANGED <<sq, il, im, dr, dm, gen, color, inputs, shatter>>

\* controller.update(time_delta)
Update ==
    /\ app # None
    /\ app.pc = "update"
    /\ app' = [app EXCEPT
                  !.pc = "render",
                  !.mouse_pose = inputs.mouse,
                  !.slider_value = inputs.slider,
                  !.steps = Append(app.steps,
                                [step |-> "update", mouse_pose |-> inputs.mouse,
                                 slider_value |-> inputs.slider])]
    /\ UNCHANGED <<sq, il, im, dr, dm, gen, color, events, inputs, shatter>>

\* controller.render(), lines 182 to 184 and the call of _generate in
\* DrawManager.draw: an exception of _generate is caught nowhere and ends main
RenderGenerate ==
    /\ app # None
    /\ app.pc = "render"
    /\ LET anchor_point == RenderAnchor(app, inputs)
           angle_offset == RenderAngleOffset(app, inputs)
           outcome == Generate(dm, anchor_point, angle_offset, app.rng)
           cleared == [fill |-> "background", ui |-> TRUE, lines |-> <<>>]
       IN  IF outcome.tag = "raise"
           THEN /\ app' = [app EXCEPT !.pc = "raised", !.exc = outcome,
                                      !.surface = cleared]
                /\ gen' = gen
           ELSE /\ app' = [app EXCEPT
                              !.pc = "draw",
                              !.surface = cleared,
                              !.rng = RngAfterGenerate(dm, app.rng),
                              !.steps = Append(app.steps,
                                            [step |-> "generate",
                                             anchor_point |-> anchor_point,
                                             angle_offset |-> angle_offset])]
                /\ gen' = outcome
    /\ UNCHANGED <<sq, il, im, dr, dm, color, events, inputs, shatter>>

\* the lines are drawn (DrawManager.draw) and pygame.display.flip() shows
\* the surface
RenderFlip ==
    /\ app # None
    /\ app.pc = "draw"
    /\ app' = [app EXCEPT
                  !.pc = "while",
                  !.surface = DrawLines(app.surface, gen.lines),
                  !.display = DrawLines(app.surface, gen.lines),
                  !.steps = Append(app.steps, [step |-> "render"])]
    /\ gen' = None
    /\ UNCHANGED <<sq, il, im, dr, dm, color, events, inputs, shatter>>

\* the loop is left: pygame.quit()
MainQuit ==
    /\ app # None
    /\ app.pc = "while"
    /\ ~app.running
    /\ app' = [app EXCEPT !.pc = "exited"]
    /\ UNCHANGED <<sq, il, im, dr, dm, gen, color, events, inputs, shatter>>

\* pygame queues an event; at most MaxEvents events are dequeued or pending
\* in one frame
EventPost ==
    \E event \in Events :
        /\ app # None
        /\ app.pc \notin {"exited", "raised"}
        /\ Len(events) + Len(app.batch) < MaxEvents
        /\ events' = Append(events, event)
        /\ UNCHANGED <<sq, il, im, dr, dm, gen, color, app, inputs, shatter>>

\* the user moves the mouse or the slider
DevicesChange ==
    \E devices \in Devices :
        /\ app # None
        /\ app.pc \notin {"exited", "raised"}
        /\ devices # inputs
        /\ inputs' = devices
        /\ UNCHANGED <<sq, il, im, dr, dm, gen, color, app, events, shatter>>

NextLoop ==
    \/ MainStart \/ MainWhile \/ HandleEvents \/ Update \/ RenderGenerate
    \/ RenderFlip \/ MainQuit \/ EventPost \/ DevicesChange

SpecLoop == InitIdle /\ [][NextLoop]_vars

(***************************************************************************)
(* Claims about the interactive loop (specification SpecLoop).             *)
(***************************************************************************)
\* the steps of a frame, in order
FrameSteps == <<"handle_events", "update", "generate", "render">>

\* C16: every frame of the interactive loop runs its steps in the order
\* handle_events (the pending events are dequeued), update (the mouse
\* position and the slider value are read), generate, render; the generation
\* pass of a frame uses the mouse position and slider value read in that
\* frame, whatever the devices did since; and a generation pass exists only
\* between the update and the render of its frame, so a new frame, and its
\* pass, start only when the previous frame's render is complete.
C16_FrameStepsInOrder ==
    app.tag = "main" =>
        /\ Len(app.steps) <= 4
        /\ \A i \in DOMAIN app.steps : app.steps[i].step = FrameSteps[i]
        /\ Len(app.steps) >= 3 =>
               /\ app.steps[3].anchor_point = app.steps[2].mouse_pose
               /\ app.steps[3].angle_offset = app.steps[2].slider_value
        /\ gen # None =>
               /\ app.pc = "draw"
               /\ Len(app.steps) = 3
               /\ gen.anchor_point = app.steps[2].mouse_pose
               /\ gen.angle_offset = app.steps[2].slider_value
        /\ app.pc = "handle_events" => app.steps = <<>>
        /\ app.pc = "update" => Len(app.steps) = 1
        /\ app.pc = "render" => Len(app.steps) = 2
        /\ app.pc = "draw" => Len(app.steps) = 3 /\ gen # None
        /\ app.pc \in {"while", "exited"} =>
               \/ app.steps = <<>> /\ app.display = BlankImage
               \/ Len(app.steps) = 4 /\ app.display = app.surface

\* C16 witness: the generation pass of a later frame, running with the mouse
\* position read by update although the mouse has moved since.
C16_Witness ==
    /\ app.tag = "main"
    /\ app.pc = "draw"
    /\ app.display # BlankImage
    /\ gen.tag = "generate"
    /\ Len(gen.lines) > 0
    /\ gen.anchor_point = app.steps[2].mouse_pose
    /\ inputs.mouse # app.steps[2].mouse_pose

\* C17: when the generation pass of a frame fails with an error, the loop
\* skips rendering for that frame, leaves the surface as the previous frame
\* drew it (the image still displayed), and goes on with the next frame.
C17_FailedPassKeepsImageAndLoop ==
    (app.tag = "main" /\ app.exc # None) =>
        /\ app.pc \in {"while", "handle_events", "update", "render", "draw"}
        /\ app.surface = app.display

\* a batch of events holds a QUIT or an ESC key-down
QuitRequested(batch) == \E i \in DOMAIN batch : ~KeepRunning(batch[i])

\* C19: once handle_events has dequeued a QUIT or an ESC key-down event,
\* running is False when handle_events returns, whatever events follow in the
\* batch, and stays so until the loop test ends the loop.
C19_QuitIsFinal ==
    ( /\ app.tag = "main"
      /\ app.pc \in {"update", "render", "draw", "while"}
      /\ QuitRequested(app.batch) ) => ~app.running

(***************************************************************************)
(* Claims about main.py's Square (specification SpecSquare).               *)
(***************************************************************************)
\* C21: Square.distance_to_hit_boundary is right in all four quadrants: for
\* every start point drawn in the square and every float angle of [-pi, pi],
\* the axis angles 0, pi / 2, -pi / 2, pi and -pi included, it returns a
\* finite distance for each start point, equal to the one the sign-based
\* clipping of Square.inside_lines computes, and the end point
\* start + distance * (cos, sin) lies in the square.
C21_QuadrantBranchesMatchSignClipping ==
    il.tag = "inside_lines_1" =>
        /\ DOMAIN il.lengths = 1..il.count
        /\ il.lengths = Lengths(il.square, il.starts_x, il.starts_y, il.angle)
        /\ \A i \in 1..il.count :
               /\ IsFinite(il.lengths[i])
               /\ RLe(RInt(0), il.lengths[i])
               /\ InRect(<<il.ends_x[i], il.ends_y[i]>>, il.square)

\* C21 witness: two rays at -numpy.pi / 2 (cos > 0, sin = -1), the first
\* from a start point above the y_min edge and ending on it.
C21_Witness ==
    /\ il.tag = "inside_lines_1"
    /\ il.angle = Dir(1, -AxisSlope)
    /\ il.count = 2
    /\ RLt(RInt(0), Cos(il.angle))
    /\ Sin(il.angle) = RInt(-1)
    /\ il.lengths[1] = RSub(il.starts_y[1], il.square.y_min)
    /\ il.lengths[1] # RInt(0)
    /\ il.ends_y[1] = il.square.y_min

\* C21, third quadrant: a ray of [-pi, -pi / 2) stopped by the x_min edge.
C21_WitnessThirdQuadrant ==
    /\ il.tag = "inside_lines_1"
    /\ il.angle = Dir(-3, -4)
    /\ il.count >= 1
    /\ il.ends_x[1] = il.square.x_min
    /\ il.lengths[1] # RInt(0)

(***************************************************************************)
(* dynamic_shatter.py: the DataModel, Controller.handle_ui_events and the  *)
(* loop of VisualizerApp.run.  The frame keeps, next to the DataModel and  *)
(* the local `running`, the events the loop has handled so far and the     *)
(* DataModel as it was before the last of them.                            *)
(***************************************************************************)
MaxUiEvents == 3

Red == <<255, 0, 0>>

Blue == <<0, 0, 255>>

\* DataModel()
NewDataModel == [point1 |-> <<100, 100>>, point2 |-> <<200, 200>>, color |-> Red]

UpdatePointsFirstOnly(data_model, offset) ==
    [data_model EXCEPT !.point1[1] = 100 + offset]

\* DataModel.update_points(offset)
UpdatePoints(data_model, offset) ==
    [data_model EXCEPT !.point1[1] = 100 + offset, !.point2[1] = 200 + offset]

\* Visualization.compute_primitives(data_model)
ComputePrimitives(data_model) ==
    [points |-> <<data_model.point1, data_model.point2>>, color |-> data_model.color]

\* Controller.handle_ui_events(event, ui_manager, data_model): the DataModel
\* it leaves
HandleUiEvents(event, data_model) ==
    LET moved ==
            IF /\ event.type = "UI_HORIZONTAL_SLIDER_MOVED"
               /\ event.ui_element = "slider"
            THEN UpdatePoints(data_model, Trunc(event.value))
            ELSE data_model
    IN  IF event.type = "UI_BUTTON_PRESSED"
        THEN IF event.ui_element = "radio_red"
             THEN [moved EXCEPT !.color = Red]
             ELSE IF event.ui_element = "radio_blue"
             THEN [moved EXCEPT !.color = Blue]
             ELSE moved
        ELSE moved

\* the values the slider of range (-50, 50) reports
SliderValues == {RInt(-50), R(-5, 2), RInt(0), R(7, 2), RInt(50)}

\* the buttons of the window: the two colour buttons and an arrow button of
\* the slider
Buttons == {"radio_red", "radio_blue", "slider.left_button"}

\* the events pygame.event.get() returns
UiEvents ==
    [type : {"UI_HORIZONTAL_SLIDER_MOVED"}, ui_element : {"slider"}, value : SliderValues]
    \cup [type : {"UI_BUTTON_PRESSED"}, ui_element : Buttons, value : {None}]
    \cup [type : {"QUIT", "MOUSEMOTION"}, ui_element : {"none"}, value : {None}]

\* main: VisualizerApp(screen_size), app.run() up to its first clock tick
ShatterMain ==
    /\ shatter = None
    /\ shatter' = [tag |-> "run", pc |-> "for", running |-> TRUE,
                   data_model |-> NewDataModel, before |-> NewDataModel,
                   handled |-> <<>>, primitives |-> None]
    /\ UNCHANGED <<sq, il, im, dr, dm, gen, color, app, events, inputs>>

\* one iteration of `for event in pygame.event.get()`
RunEvent ==
    \E event \in UiEvents :
        /\ shatter # None
        /\ shatter.pc = "for"
        /\ Len(shatter.handled) < MaxUiEvents
        /\ shatter' = [shatter EXCEPT
               !.running = IF event.type = "QUIT" THEN FALSE ELSE @,
               !.before = shatter.data_model,
               !.data_model = HandleUiEvents(event, @),
               !.handled = Append(@, event)]
        /\ UNCHANGED <<sq, il, im, dr, dm, gen, color, app, events, inputs>>

\* the rest of the loop body: compute_primitives, fill, draw, the UI, flip
RunDraw ==
    /\ shatter # None
    /\ shatter.pc = "for"
    /\ shatter' = [shatter EXCEPT !.pc = "while",
                                  !.primitives = ComputePrimitives(shatter.data_model)]
    /\ UNCHANGED <<sq, il, im, dr, dm, gen, color, app, events, inputs>>

\* while running: clock.tick(60)
RunWhile ==
    /\ shatter # None
    /\ shatter.pc = "while"
    /\ shatter.running
    /\ shatter' = [shatter EXCEPT !.pc = "for"]
    /\ UNCHANGED <<sq, il, im, dr, dm, gen, color, app, events, inputs>>

\* the loop ends: pygame.quit()
RunQuit ==
    /\ shatter # None
    /\ shatter.pc = "while"
    /\ ~shatter.running
    /\ shatter' = [shatter EXCEPT !.pc = "quit"]
    /\ UNCHANGED <<sq, il, im, dr, dm, gen, color, app, events, inputs>>

NextShatter == ShatterMain \/ RunEvent \/ RunDraw \/ RunWhile \/ RunQuit

SpecShatter == InitIdle /\ [][NextShatter]_vars

(***************************************************************************)
(* Claims about dynamic_shatter's DataModel (specification SpecShatter).   *)
(***************************************************************************)
\* the positions, in the handled events, of the slider moves
SliderMoves(handled) ==
    {i \in 1..Len(handled) : handled[i].type = "UI_HORIZONTAL_SLIDER_MOVED"}

\* the positions, in the handled events, of the presses of a colour button
ColorPresses(handled) ==
    {i \in 1..Len(handled) :
        /\ handled[i].type = "UI_BUTTON_PRESSED"
        /\ handled[i].ui_element \in {"radio_red", "radio_blue"}}

Last(S) == CHOOSE i \in S : \A j \in S : j <= i

\* the integer value of the last slider move, 0 if there was none
LastOffset(handled) ==
    IF SliderMoves(handled) = {} THEN 0
    ELSE LET value == handled[Last(SliderMoves(handled))].value
         IN  IF value.n >= 0 THEN value.n \div value.d ELSE -((-value.n) \div value.d)

\* the colour of the last pressed colour button, red if there was none
LastColor(handled) ==
    IF ColorPresses(handled) = {} THEN <<255, 0, 0>>
    ELSE IF handled[Last(ColorPresses(handled))].ui_element = "radio_red"
    THEN <<255, 0, 0>>
    ELSE <<0, 0, 255>>

\* C22: after any sequence of events, point1 = (100 + o, 100) and
\* point2 = (200 + o, 200), o the integer value of the last slider move (0 if
\* none), so point2.x - point1.x = 100 and the y coordinates never change;
\* the colour is that of the last pressed colour button (red if none); a
\* slider event leaves the colour as it was and a button event leaves both
\* points as they were.
C22_PointsFollowSliderColorFollowsButton ==
    shatter.tag = "run" =>
        LET data_model == shatter.data_model
            handled == shatter.handled
            o == LastOffset(handled)
        IN  /\ data_model.point1 = <<100 + o, 100>>
            /\ data_model.point2 = <<200 + o, 200>>
            /\ data_model.point2[1] - data_model.point1[1] = 100
            /\ data_model.color = LastColor(handled)
            /\ handled # <<>> =>
                   LET event == handled[Len(handled)]
                   IN  /\ event.type = "UI_HORIZONTAL_SLIDER_MOVED" =>
                               data_model.color = shatter.before.color
                       /\ event.type = "UI_BUTTON_PRESSED" =>
                               /\ data_model.point1 = shatter.before.point1
                               /\ data_model.point2 = shatter.before.point2

\* C22 witness: the slider moved to 3.5, the blue button was pressed, then
\* the slider moved to -50: the points are at x = 50 and 150 and the colour
\* has stayed blue through the second move.
C22_Witness ==
    /\ shatter.tag = "run"
    /\ Len(shatter.handled) = 3
    /\ shatter.handled[1].type = "UI_HORIZONTAL_SLIDER_MOVED"
    /\ shatter.handled[1].value = R(7, 2)
    /\ shatter.handled[2].ui_element = "radio_blue"
    /\ shatter.handled[3].type = "UI_HORIZONTAL_SLIDER_MOVED"
    /\ shatter.handled[3].value = RInt(-50)
    /\ shatter.before = [point1 |-> <<103, 100>>, point2 |-> <<203, 200>>,
                         color |-> <<0, 0, 255>>]
    /\ shatter.data_model = [point1 |-> <<50, 100>>, point2 |-> <<150, 200>>,
                             color |-> <<0, 0, 255>>]

====
